---------------------------- MODULE Spec2Model ----------------------------
(***************************************************************************)
(* Model of acse_la/gauss.py: gauss (Gaussian elimination with partial     *)
(* pivoting, returning determinant and solution), zeromat and matmul.      *)
(*                                                                         *)
(* Numbers are exact rationals <<num, den>> (den > 0, lowest terms): the   *)
(* Python ints and floats of the source, with the rounding of floats left  *)
(* out.  Matrices are lists of lists, as in the doctests; list indices are *)
(* 1-based here, so the source's range(n - 1) is 1..n-1, range(i + 1, n)   *)
(* is i+1..n and range(n - 1, -1, -1) is n down to 1.  An index past the   *)
(* end of a list raises IndexError, a division by zero ZeroDivisionError.  *)
(***************************************************************************)
EXTENDS Integers, Sequences, FiniteSets, TLC

(***************************************************************************)
(* Bounds of the model.                                                    *)
(***************************************************************************)
\* entries of the enumerated 1x1..2x2 coefficient matrices lie in -MaxVal..MaxVal
MaxVal == 2
\* number of successive calls of gauss on the same caller-owned A and B
MaxCalls == 2

None == <<>>

(***************************************************************************)
(* Python arithmetic on numbers, carried out exactly.                      *)
(***************************************************************************)
IAbs(x) == IF x < 0 THEN -x ELSE x

RECURSIVE GCD(_, _)
GCD(x, y) == IF y = 0 THEN x ELSE GCD(y, x % y)

\* the rational num/den in lowest terms with a positive denominator
Norm(num, den) ==
    LET g == GCD(IAbs(num), IAbs(den))
        s == IF den < 0 THEN -1 ELSE 1
    IN  <<(s * num) \div g, (s * den) \div g>>

Rat(v) == <<v, 1>>
Zero == Rat(0)
One == Rat(1)

\* x - y
RSub(x, y) == Norm(x[1] * y[2] - y[1] * x[2], x[2] * y[2])
\* x + y
RAdd(x, y) == Norm(x[1] * y[2] + y[1] * x[2], x[2] * y[2])
\* x * y
RMul(x, y) == Norm(x[1] * y[1], x[2] * y[2])
\* the quotient of x by y # 0
RDiv(x, y) == Norm(x[1] * y[2], x[2] * y[1])
\* -x
RNeg(x) == <<-x[1], x[2]>>
\* abs(x)
RAbs(x) == <<IAbs(x[1]), x[2]>>
\* x > y
RGreater(x, y) == x[1] * y[2] > y[1] * x[2]

\* the outcome of a division that raises ZeroDivisionError
ZeroDivision == None

\* a division guarded against y = 0 that yields 0 instead of raising
PyDivGuarded(x, y) == IF y = Zero THEN Zero ELSE RDiv(x, y)

\* x / y: Python raises ZeroDivisionError for y = 0, on ints and floats alike
PyDiv(x, y) == IF y = Zero THEN ZeroDivision ELSE RDiv(x, y)

(***************************************************************************)
(* Lists of lists.                                                         *)
(***************************************************************************)
\* the list-of-lists of Python numbers with the integer entries of M
ToRat(M) == [r \in 1..Len(M) |-> [c \in 1..Len(M[r]) |-> Rat(M[r][c])]]

\* all rows x cols integer matrices with entries in S
Mat(rows, cols, S) == [1..rows -> [1..cols -> S]]

Ident(size) == [r \in 1..size |-> [c \in 1..size |-> IF r = c THEN 1 ELSE 0]]

\* a = a instead of a = copy.deepcopy(a): the local name stays bound to the
\* caller's object
DeepcopyAliased(src, fresh) == src

\* copy.deepcopy(x): the object the local name is bound to is the fresh one
Deepcopy(src, fresh) == fresh

(***************************************************************************)
(* State.                                                                  *)
(*   heap    the matrix objects: "A" and "B" are owned by the caller, "a"  *)
(*           and "b" are the objects made by gauss's deepcopy              *)
(*   g       the frame of the running call of gauss: its locals a, b (the  *)
(*           objects the names are bound to), n, p, det, my_det, i, j, t,  *)
(*           its position pc and the exception err it raised               *)
(*   result  what the call returned, None before it returns                *)
(*   swaps   number of row swaps the call has performed                    *)
(*   calls   number of calls of gauss started so far                       *)
(*   first   outcome of the first call, None while it runs                 *)
(*   m       the frame of the running call of matmul: its arguments a, b,  *)
(*           its locals n, p, p1, q, c, i, j, its position pc and the      *)
(*           exception err it raised                                       *)
(*   mresult what the call of matmul returned, None before it returns      *)
(***************************************************************************)
VARIABLES heap, g, result, swaps, calls, first, m, mresult

matmulVars == <<m, mresult>>
gaussVars == <<heap, g, result, swaps, calls, first>>
vars == <<heap, g, result, swaps, calls, first, m, mresult>>

\* the working matrices of the running call
wa == heap[g.a]
wb == heap[g.b]

Idle == [a |-> "A", b |-> "B", n |-> 0, p |-> 0, det |-> None, my_det |-> None,
         i |-> 0, j |-> 0, t |-> None, pc |-> "call", err |-> "none"]

Raise(frame, e) == [frame EXCEPT !.pc = "raised", !.err = e]

(***************************************************************************)
(* gauss, lines 44-48: copies, sizes, det = 1, and the loop headers.       *)
(***************************************************************************)
GaussEnter ==
    /\ g.pc = "call"
    /\ LET ra == Deepcopy("A", "a")
           rb == Deepcopy("B", "b")
           n == Len(heap["A"])
           p == Len(heap["B"][1])
       IN  /\ heap' = [heap EXCEPT !["a"] = heap["A"], !["b"] = heap["B"]]
           /\ g' = [g EXCEPT !.a = ra, !.b = rb, !.n = n, !.p = p, !.det = One,
                             !.i = IF n - 1 >= 1 THEN 1 ELSE n,
                             !.pc = IF n - 1 >= 1 THEN "pivot" ELSE "back"]
    /\ calls' = calls + 1
    /\ UNCHANGED <<result, swaps, first, matmulVars>>

(***************************************************************************)
(* gauss, lines 50-53: the pivot scan of column i over rows i+1..n.        *)
(***************************************************************************)
\* the scan with >= for >: the last row of maximal magnitude wins
RECURSIVE PivotScanLastWins(_, _, _, _, _)
PivotScanLastWins(a, i, j, n, k) ==
    IF j > n THEN k
    ELSE PivotScanLastWins(a, i, j + 1, n,
             IF ~RGreater(RAbs(a[k][i]), RAbs(a[j][i])) THEN j ELSE k)

RECURSIVE PivotScan(_, _, _, _, _)
PivotScan(a, i, j, n, k) ==
    IF j > n THEN k
    ELSE PivotScan(a, i, j + 1, n,
                   IF RGreater(RAbs(a[j][i]), RAbs(a[k][i])) THEN j ELSE k)

PivotRow(a, i, n) == PivotScan(a, i, i + 1, n, i)

\* a[i], a[k] = a[k], a[i]
SwapRows(rows, i, k) == [rows EXCEPT ![i] = rows[k], ![k] = rows[i]]

\* the swap without det = -det
FlipDetKept(det) == det

\* det = -det
FlipDet(det) == RNeg(det)

(***************************************************************************)
(* gauss, lines 50-57: pivot selection and row swap for column i.          *)
(***************************************************************************)
GaussPivot ==
    /\ g.pc = "pivot"
    /\ LET a == wa
           b == wb
           i == g.i
       IN  IF i > Len(a[1])
           THEN \* a[j][i] on line 52
                /\ g' = Raise(g, "IndexError")
                /\ UNCHANGED <<heap, swaps>>
           ELSE LET k == PivotRow(a, i, g.n)
                IN  IF k = i
                    THEN /\ g' = [g EXCEPT !.j = i + 1, !.pc = "elim"]
                         /\ UNCHANGED <<heap, swaps>>
                    ELSE IF k > Len(b)
                    THEN \* b[k] on line 56, after line 55 swapped a
                         /\ heap' = [heap EXCEPT ![g.a] = SwapRows(a, i, k)]
                         /\ g' = Raise(g, "IndexError")
                         /\ UNCHANGED swaps
                    ELSE /\ heap' = [heap EXCEPT ![g.a] = SwapRows(a, i, k),
                                                 ![g.b] = SwapRows(b, i, k)]
                         /\ g' = [g EXCEPT !.det = FlipDet(g.det), !.j = i + 1,
                                           !.pc = "elim"]
                         /\ swaps' = swaps + 1
    /\ UNCHANGED <<result, calls, first, matmulVars>>

(***************************************************************************)
(* gauss, lines 60-64: elimination of row j with pivot row i.              *)
(***************************************************************************)
\* t = a[j][i]/a[i][i]
Multiplier(a, i, j) == PyDiv(a[j][i], a[i][i])

\* for k in range(i + 1, n): a[j][k] -= t*a[i][k], as far as row j reaches
ElimRowA(a, i, j, n, t) ==
    [a EXCEPT ![j] = [k \in 1..Len(a[j]) |->
        IF k >= i + 1 /\ k <= n THEN RSub(a[j][k], RMul(t, a[i][k])) ELSE a[j][k]]]

\* b[j][k] += t*b[i][k] for b[j][k] -= t*b[i][k]
ElimRowBAdds(b, i, j, p, t) ==
    [b EXCEPT ![j] = [k \in 1..Len(b[j]) |->
        IF k <= p THEN RAdd(b[j][k], RMul(t, b[i][k])) ELSE b[j][k]]]

\* for k in range(p): b[j][k] -= t*b[i][k]
ElimRowB(b, i, j, p, t) ==
    [b EXCEPT ![j] = [k \in 1..Len(b[j]) |->
        IF k <= p THEN RSub(b[j][k], RMul(t, b[i][k])) ELSE b[j][k]]]

\* the loop headers of lines 49 and 59 after the body for row j
AfterElim(frame) ==
    IF frame.j < frame.n THEN [frame EXCEPT !.j = frame.j + 1]
    ELSE IF frame.i < frame.n - 1 THEN [frame EXCEPT !.i = frame.i + 1, !.pc = "pivot"]
    ELSE [frame EXCEPT !.i = frame.n, !.pc = "back"]

GaussEliminate ==
    /\ g.pc = "elim"
    /\ LET a == wa
           b == wb
           i == g.i
           j == g.j
           t == Multiplier(a, i, j)
       IN  IF t = ZeroDivision
           THEN /\ g' = Raise(g, "ZeroDivisionError")
                /\ UNCHANGED heap
           ELSE LET a1 == ElimRowA(a, i, j, g.n, t)
                    g1 == [g EXCEPT !.t = t]
                IN  IF g.n > Len(a[j])
                    THEN \* a[j][k] on line 62, past the end of row j
                         /\ heap' = [heap EXCEPT ![g.a] = a1]
                         /\ g' = Raise(g1, "IndexError")
                    ELSE IF j > Len(b)
                    THEN \* b[j] on line 64
                         /\ heap' = [heap EXCEPT ![g.a] = a1]
                         /\ g' = Raise(g1, "IndexError")
                    ELSE /\ heap' = [heap EXCEPT ![g.a] = a1,
                                        ![g.b] = ElimRowB(b, i, j, g.p, t)]
                         /\ g' = AfterElim(g1)
    /\ UNCHANGED <<result, swaps, calls, first, matmulVars>>

(***************************************************************************)
(* gauss, lines 67-70: row i of b minus the rows below, for j in i+1..n.   *)
(* The result holds b and t as the loop left them and the exception, if    *)
(* one ended it.                                                           *)
(***************************************************************************)
\* for k in range(p): b[i][k] -= t*b[j][k]
BackRowB(b, i, j, p, t) ==
    [b EXCEPT ![i] = [k \in 1..Len(b[i]) |->
        IF k <= p THEN RSub(b[i][k], RMul(t, b[j][k])) ELSE b[i][k]]]

RECURSIVE BackLoop(_, _, _, _, _, _, _)
BackLoop(a, b, i, j, n, p, t) ==
    IF j > n THEN [b |-> b, t |-> t, err |-> "none"]
    ELSE IF j > Len(a[i]) THEN [b |-> b, t |-> t, err |-> "IndexError"]
    ELSE IF i > Len(b) \/ j > Len(b)
         THEN [b |-> b, t |-> a[i][j], err |-> "IndexError"]
    ELSE BackLoop(a, BackRowB(b, i, j, p, a[i][j]), i, j + 1, n, p, a[i][j])

\* t = 1/a[i][i]
Reciprocal(x) == PyDiv(One, x)

\* det = a[i][i] for det *= a[i][i]
AccumulateDetOverwrites(det, pivot) == pivot

\* det *= a[i][i]
AccumulateDet(det, pivot) == RMul(det, pivot)

\* for j in range(p): b[i][j] *= t
ScaleRowB(b, i, p, t) ==
    [b EXCEPT ![i] = [k \in 1..Len(b[i]) |->
        IF k <= p THEN RMul(b[i][k], t) ELSE b[i][k]]]

\* the loop header of line 66 after the body for row i
AfterBack(frame) ==
    IF frame.i > 1 THEN [frame EXCEPT !.i = frame.i - 1]
    ELSE [frame EXCEPT !.pc = "return"]

(***************************************************************************)
(* gauss, lines 67-75: back-substitution of row i, the determinant's       *)
(* factor a[i][i] and the normalisation of row i of b.                     *)
(***************************************************************************)
GaussBack ==
    /\ g.pc = "back"
    /\ LET a == wa
           i == g.i
           loop == BackLoop(a, wb, i, i + 1, g.n, g.p, g.t)
           g1 == [g EXCEPT !.t = loop.t, !.j = IF i < g.n THEN g.n ELSE g.j]
       IN  IF loop.err # "none"
           THEN /\ heap' = [heap EXCEPT ![g.b] = loop.b]
                /\ g' = Raise(g1, loop.err)
           ELSE IF i > Len(a[i])
           THEN /\ heap' = [heap EXCEPT ![g.b] = loop.b]
                /\ g' = Raise(g1, "IndexError")
           ELSE IF Reciprocal(a[i][i]) = ZeroDivision
           THEN /\ heap' = [heap EXCEPT ![g.b] = loop.b]
                /\ g' = Raise(g1, "ZeroDivisionError")
           ELSE LET t == Reciprocal(a[i][i])
                    det == AccumulateDet(g.det, a[i][i])
                    g2 == [g1 EXCEPT !.t = t, !.det = det, !.my_det = det]
                IN  IF i > Len(loop.b)
                    THEN \* b[i] on line 75
                         /\ heap' = [heap EXCEPT ![g.b] = loop.b]
                         /\ g' = Raise(g2, "IndexError")
                    ELSE /\ heap' = [heap EXCEPT ![g.b] = ScaleRowB(loop.b, i, g.p, t)]
                         /\ g' = AfterBack(g2)
    /\ UNCHANGED <<result, swaps, calls, first, matmulVars>>

(***************************************************************************)
(* gauss, line 76: return my_det, b.                                       *)
(***************************************************************************)
GaussReturn ==
    /\ g.pc = "return"
    /\ result' = <<g.my_det, wb>>
    /\ g' = [g EXCEPT !.pc = "done"]
    /\ UNCHANGED <<heap, swaps, calls, first, matmulVars>>

(***************************************************************************)
(* The caller calls gauss again on the same objects A and B, keeping the   *)
(* outcome of its first call.                                              *)
(***************************************************************************)
Outcome == <<g.err, result>>

CallAgain ==
    /\ g.pc \in {"done", "raised"}
    /\ calls < MaxCalls
    /\ first' = IF first = None THEN Outcome ELSE first
    /\ g' = Idle
    /\ result' = None
    /\ swaps' = 0
    /\ UNCHANGED <<heap, calls, matmulVars>>

(***************************************************************************)
(* zeromat, line 107.                                                      *)
(***************************************************************************)
zeromat(p, q) == [r \in 1..p |-> [c \in 1..q |-> Zero]]

MIdle == [a |-> None, b |-> None, n |-> 0, p |-> 0, p1 |-> 0, q |-> 0, c |-> None,
          i |-> 0, j |-> 0, pc |-> "idle", err |-> "none"]

MCall(a, b) == [MIdle EXCEPT !.a = a, !.b = b, !.pc = "call"]

(***************************************************************************)
(* matmul, lines 135-139: the sizes, the dimension check, c = zeromat.     *)
(***************************************************************************)
MatmulEnter ==
    /\ m.pc = "call"
    /\ LET n == Len(m.a)
           p == Len(m.a[1])
           p1 == Len(m.b)
           q == Len(m.b[1])
           m1 == [m EXCEPT !.n = n, !.p = p, !.p1 = p1, !.q = q]
       IN  IF p # p1
           THEN m' = Raise(m1, "ValueError")
           ELSE m' = [m1 EXCEPT !.c = zeromat(n, q), !.i = 1, !.j = 1, !.pc = "entry"]
    /\ UNCHANGED <<mresult, gaussVars>>

(***************************************************************************)
(* matmul, line 142: sum(a[i][k]*b[j][k] for k in range(p)).               *)
(***************************************************************************)
RECURSIVE SumTo(_, _, _, _, _)
SumTo(a, b, i, j, k) ==
    IF k = 0 THEN Zero
    ELSE RAdd(SumTo(a, b, i, j, k - 1), RMul(a[i][k], b[j][k]))

EntrySum(a, b, i, j, p) == SumTo(a, b, i, j, p)

\* the loop headers of lines 140 and 141 after the body for entry i, j
AfterEntry(frame) ==
    IF frame.j < frame.q THEN [frame EXCEPT !.j = frame.j + 1]
    ELSE IF frame.i < frame.n THEN [frame EXCEPT !.i = frame.i + 1, !.j = 1]
    ELSE [frame EXCEPT !.pc = "return"]

(***************************************************************************)
(* matmul, lines 140-142: the assignment of c[i][j].                       *)
(***************************************************************************)
MatmulEntry ==
    /\ m.pc = "entry"
    /\ IF m.j > Len(m.b) \/ m.p > Len(m.b[m.j])
       THEN \* b[j], or b[j][k] past the end of row j
            m' = Raise(m, "IndexError")
       ELSE m' = AfterEntry([m EXCEPT !.c[m.i][m.j] = EntrySum(m.a, m.b, m.i, m.j, m.p)])
    /\ UNCHANGED <<mresult, gaussVars>>

(***************************************************************************)
(* matmul, line 143: return c.                                             *)
(***************************************************************************)
MatmulReturn ==
    /\ m.pc = "return"
    /\ mresult' = m.c
    /\ m' = [m EXCEPT !.pc = "done"]
    /\ UNCHANGED gaussVars

(***************************************************************************)
(* The caller multiplies its A by the solution gauss returned for it.      *)
(***************************************************************************)
MultiplyBack ==
    /\ g.pc = "done"
    /\ m.pc = "idle"
    /\ m' = MCall(heap["A"], result[2])
    /\ UNCHANGED <<mresult, gaussVars>>

(***************************************************************************)
(* Inputs of gauss: every coefficient matrix of 1..2 rows and 1..2 columns *)
(* (square or not) over -MaxVal..MaxVal with right-hand sides of 1..2 rows *)
(* (a column over -1..1, or the identity); every 3x3 matrix over -1..1     *)
(* with the identity; and the two doctest examples.                        *)
(***************************************************************************)
Vals == (-MaxVal)..MaxVal
Small == {-1, 0, 1}

Rhs(rows) == Mat(rows, 1, Small) \cup {Ident(rows)}

DocA1 == <<<<2, 0, -1>>, <<0, 5, 6>>, <<0, -1, 1>>>>
DocB1 == <<<<2>>, <<1>>, <<2>>>>
DocA2 == <<<<1, 0, -1>>, <<-2, 3, 0>>, <<1, -3, 2>>>>

GaussInputs ==
    UNION {Mat(n, w, Vals) \X Rhs(r) : <<n, w, r>> \in (1..2) \X (1..2) \X (1..2)}
    \cup (Mat(3, 3, Small) \X {Ident(3)})
    \cup {<<DocA1, DocB1>>, <<DocA2, Ident(3)>>}

InitWith(inputs) ==
    /\ \E in \in inputs :
          heap = [A |-> ToRat(in[1]), B |-> ToRat(in[2]), a |-> None, b |-> None]
    /\ g = Idle
    /\ result = None
    /\ swaps = 0
    /\ calls = 0
    /\ first = None
    /\ m = MIdle
    /\ mresult = None

Init == InitWith(GaussInputs)

Next ==
    \/ GaussEnter
    \/ GaussPivot
    \/ GaussEliminate
    \/ GaussBack
    \/ GaussReturn

Spec == Init /\ [][Next]_vars

(***************************************************************************)
(* Repeated calls of gauss on the same caller-owned matrices.              *)
(***************************************************************************)
RepeatInputs ==
    UNION {Mat(n, w, Vals) \X Rhs(r) : <<n, w, r>> \in (1..2) \X (1..2) \X (1..2)}
    \cup {<<DocA1, DocB1>>, <<DocA2, Ident(3)>>}

InitRepeat == InitWith(RepeatInputs)

NextRepeat == Next \/ CallAgain

SpecRepeat == InitRepeat /\ [][NextRepeat]_vars

(***************************************************************************)
(* matmul alone: a of 1..2 rows and columns, b of 1..2 rows and columns,   *)
(* entries in -1..1.                                                       *)
(***************************************************************************)
MatmulInputs ==
    UNION {Mat(n, p, Small) \X Mat(p1, q, Small) :
              <<n, p, p1, q>> \in (1..2) \X (1..2) \X (1..2) \X (1..2)}

InitMatmul ==
    /\ \E in \in MatmulInputs : m = MCall(ToRat(in[1]), ToRat(in[2]))
    /\ mresult = None
    /\ heap = [A |-> None, B |-> None, a |-> None, b |-> None]
    /\ g = [Idle EXCEPT !.pc = "idle"]
    /\ result = None
    /\ swaps = 0
    /\ calls = 0
    /\ first = None

NextMatmul ==
    \/ MatmulEnter
    \/ MatmulEntry
    \/ MatmulReturn

SpecMatmul == InitMatmul /\ [][NextMatmul]_vars

(***************************************************************************)
(* gauss(A, I) followed by matmul(A, X): square A of size 1..3.            *)
(***************************************************************************)
RoundTripInputs ==
    UNION {Mat(n, n, Vals) \X {Ident(n)} : n \in 1..2}
    \cup (Mat(3, 3, Small) \X {Ident(3)})
    \cup {<<DocA1, Ident(3)>>, <<DocA2, Ident(3)>>}

InitRoundTrip == InitWith(RoundTripInputs)

NextRoundTrip == Next \/ MultiplyBack \/ NextMatmul

SpecRoundTrip == InitRoundTrip /\ [][NextRoundTrip]_vars


(***************************************************************************)
(* Reference definitions the properties are stated with.                   *)
(***************************************************************************)
A0 == heap["A"]
B0 == heap["B"]

Square(M) == \A r \in 1..Len(M) : Len(M[r]) = Len(M)

\* the determinant by cofactor expansion along the first row
RECURSIVE Det(_)
RECURSIVE CofactorSum(_, _)
Minor(M, c) ==
    [r \in 1..(Len(M) - 1) |->
        [cc \in 1..(Len(M) - 1) |-> M[r + 1][IF cc < c THEN cc ELSE cc + 1]]]

CofactorSum(M, c) ==
    IF c = 0 THEN Zero
    ELSE LET term == RMul(M[1][c], Det(Minor(M, c)))
         IN  RAdd(CofactorSum(M, c - 1), IF c % 2 = 1 THEN term ELSE RNeg(term))

Det(M) == IF Len(M) = 1 THEN M[1][1] ELSE CofactorSum(M, Len(M))

RECURSIVE DotTo(_, _, _, _, _)
DotTo(X, Y, r, c, k) ==
    IF k = 0 THEN Zero ELSE RAdd(DotTo(X, Y, r, c, k - 1), RMul(X[r][k], Y[k][c]))

\* the standard product: entry r, c is the sum over k of X[r][k]*Y[k][c]
Product(X, Y) ==
    [r \in 1..Len(X) |-> [c \in 1..Len(Y[1]) |-> DotTo(X, Y, r, c, Len(Y))]]

SameShape(X, Y) == Len(X) = Len(Y) /\ \A r \in 1..Len(X) : Len(X[r]) = Len(Y[r])

\* A is square and B has as many rows as A
WellFormed == Square(A0) /\ Len(B0) = Len(A0)

Invertible == WellFormed /\ Det(A0) # Zero

Returned == g.pc = "done"
Failed == g.pc = "raised"

(***************************************************************************)
(* C1: for a square invertible A and an n x p right-hand side B, gauss     *)
(* does not fail, and what it returns is a matrix X of the shape of B with *)
(* A.X = B exactly; the first doctest's system has X = [[1.5],[-1],[1]].   *)
(***************************************************************************)
DocX1 == <<<<(<<3, 2>>)>>, <<(<<-1, 1>>)>>, <<(<<1, 1>>)>>>>

C1_SolutionSolves ==
    Invertible =>
        /\ ~Failed
        /\ Returned =>
              /\ SameShape(result[2], B0)
              /\ Product(A0, result[2]) = B0
              /\ (A0 = ToRat(DocA1) /\ B0 = ToRat(DocB1)) => result[2] = DocX1

C1_Witness ==
    /\ Returned
    /\ A0 = ToRat(DocA1)
    /\ B0 = ToRat(DocB1)
    /\ result[2] = DocX1

(***************************************************************************)
(* C2: for a square invertible A and a compatible B, the scalar gauss      *)
(* returns is the determinant of A by cofactor expansion, sign included,   *)
(* whatever B is; 3 and 22 for the two doctest matrices.                   *)
(***************************************************************************)
C2_DeterminantIsCofactor ==
    (Invertible /\ Returned) =>
        /\ result[1] = Det(A0)
        /\ A0 = ToRat(DocA2) => result[1] = Rat(3)
        /\ A0 = ToRat(DocA1) => result[1] = Rat(22)

C2_Witness ==
    /\ Returned
    /\ A0 = ToRat(DocA2)
    /\ swaps = 1
    /\ result[1] = Rat(3)

(***************************************************************************)
(* C3: no step of gauss changes the caller's A or B, in calls that return  *)
(* and in calls that fail, and a second call on the same A and B ends as   *)
(* the first did: the same exception, or the same determinant and the same *)
(* solution matrix.                                                        *)
(***************************************************************************)
C3_CallerUntouched ==
    [][/\ heap'["A"] = heap["A"]
       /\ heap'["B"] = heap["B"]
       /\ (calls' >= 2 /\ g'.pc \in {"done", "raised"}) => <<g'.err, result'>> = first'
      ]_vars

C3_Witness ==
    /\ calls = 2
    /\ Returned
    /\ swaps >= 1
    /\ first = Outcome
    /\ wa # A0
    /\ wb # B0

(***************************************************************************)
(* C7: when the pivot a[i][i] a division divides by is zero, in forward    *)
(* elimination or in the normalisation of back-substitution, the call      *)
(* fails with the division error and returns nothing; so gauss returns for *)
(* no singular A.  A = [[0,0],[0,1]] with the identity fails.              *)
(***************************************************************************)
ZeroDivisor ==
    \/ g.pc = "elim" /\ wa[g.i][g.i] = Zero
    \/ WellFormed /\ g.pc = "back" /\ wa[g.i][g.i] = Zero

C7_ZeroPivotFails ==
    [][/\ ZeroDivisor => (g'.pc = "raised" /\ g'.err = "ZeroDivisionError"
                          /\ result' = None)
       /\ (g'.pc = "done" /\ WellFormed) => Det(A0) # Zero
      ]_vars

SingularA == <<<<0, 0>>, <<0, 1>>>>

C7_Witness ==
    /\ A0 = ToRat(SingularA)
    /\ B0 = ToRat(Ident(2))
    /\ Failed
    /\ g.err = "ZeroDivisionError"
    /\ result = None

(***************************************************************************)
(* C8: when A is not square or B's row count is not A's, gauss fails with  *)
(* the dimension error before any pivoting, elimination or                 *)
(* back-substitution step, and never returns.                              *)
(***************************************************************************)
C8_DimensionMismatchEager ==
    ~WellFormed =>
        /\ ~Returned
        /\ Failed => (g.err = "ValueError" /\ swaps = 0 /\ g.t = None
                      /\ g.my_det = None)

(***************************************************************************)
(* C9: in forward elimination det is negated by the steps that swap two    *)
(* rows and changed by no other step, and the determinant returned is      *)
(* (-1)^swaps times the product of the diagonal of the working matrix.     *)
(***************************************************************************)
RECURSIVE DiagProduct(_, _)
DiagProduct(M, k) == IF k = 0 THEN One ELSE RMul(DiagProduct(M, k - 1), M[k][k])

\* the step swapped two rows of the working a
Swapped == g.pc = "pivot" /\ g'.pc = "elim" /\ heap'[g.a] # heap[g.a]

C9_SignPerSwap ==
    [][/\ g.pc \in {"pivot", "elim"} =>
             /\ g'.det = IF Swapped THEN RNeg(g.det) ELSE g.det
             /\ swaps' = IF Swapped THEN swaps + 1 ELSE swaps
       /\ g'.pc = "done" =>
             result'[1] = RMul(IF swaps' % 2 = 0 THEN One ELSE RNeg(One),
                               DiagProduct(heap'[g.a], g.n))
      ]_vars

C9_Witness ==
    /\ Returned
    /\ swaps = 2
    /\ result[1] = DiagProduct(wa, g.n)

(***************************************************************************)
(* C10: the pivot step of column i, for i the columns before the last,     *)
(* moves into row i the lowest row among i..n of maximal magnitude in      *)
(* column i, by one swap of rows i and k in a and in b (none when row i    *)
(* is maximal), and every multiplier t of the elimination has |t| <= 1.    *)
(***************************************************************************)
\* the lowest row among i..n whose entry in column i is of maximal magnitude
LowestMax(a, i, n) ==
    CHOOSE k \in i..n :
        /\ \A r \in i..n : ~RGreater(RAbs(a[r][i]), RAbs(a[k][i]))
        /\ \A r \in i..(k - 1) : RGreater(RAbs(a[k][i]), RAbs(a[r][i]))

C10_PartialPivot ==
    [][/\ g.pc \in {"pivot", "elim"} => g.i \in 1..(g.n - 1)
       /\ (g.pc = "pivot" /\ g'.pc = "elim") =>
             LET k == LowestMax(wa, g.i, g.n)
             IN  /\ heap'[g.a] = SwapRows(wa, g.i, k)
                 /\ heap'[g.b] = SwapRows(wb, g.i, k)
       /\ (g.pc = "elim" /\ g'.err # "ZeroDivisionError") =>
             ~RGreater(RAbs(g'.t), One)
      ]_vars

C10_Witness ==
    /\ g.pc = "pivot"
    /\ g.i = 2
    /\ swaps = 1
    /\ A0[1][1] = Zero
    /\ A0[2][1] = One
    /\ A0[3][1] = Rat(-1)
    /\ wa[1] = A0[2]
    /\ g.t = Rat(-1)

(***************************************************************************)
(* C4: for a of n x p and b of p x q, symmetric or not, square or not,     *)
(* matmul returns the n x q matrix of the sums over k of a[i][k]*b[k][j].  *)
(***************************************************************************)
C4_MatmulIsProduct ==
    Len(m.a[1]) = Len(m.b) =>
        /\ m.pc # "raised"
        /\ m.pc = "done" => mresult = Product(m.a, m.b)

(***************************************************************************)
(* C5: matmul fails with the dimension error exactly when p # p1, and a    *)
(* call that fails has written no entry of a result matrix.                *)
(***************************************************************************)
\* the loop of lines 140-142 has assigned no c[i][j]
NoEntryWritten == m.c = None \/ (m.i = 1 /\ m.j = 1)

C5_MatmulFailsAtomically ==
    /\ m.pc # "call" =>
          ((m.pc = "raised" /\ m.err = "ValueError") <=> Len(m.a[1]) # Len(m.b))
    /\ m.pc = "raised" => NoEntryWritten

(***************************************************************************)
(* C6: for a square invertible A, the X gauss returns for the identity     *)
(* gives matmul(A, X) equal to the identity.                               *)
(***************************************************************************)
C6_RoundTripIdentity ==
    (Invertible /\ B0 = ToRat(Ident(Len(A0))) /\ m.pc \notin {"idle", "call"}) =>
        /\ m.pc # "raised"
        /\ m.pc = "done" => mresult = ToRat(Ident(Len(A0)))

=============================================================================
